---------------------------- MODULE Spec2Model ----------------------------
(***************************************************************************)
(* A model of the two estimation stages of src/mre.py:                     *)
(*                                                                         *)
(*   correlation_coefficients  (lines 257-465)  under specification Spec,  *)
(*   correlation_fit           (lines 552-701)  under specification SpecFit*)
(*                                                                         *)
(* Numbers.  numpy floats are modelled by exact rationals <<num, den>>     *)
(* with den > 0 in lowest terms; <<0, 0>> stands for a float that is not a *)
(* finite number (the 0/0 of a degenerate regression).  A standard error   *)
(* is a square root; it is represented by its radicand (the value under    *)
(* the root), which identifies it because sqrt is injective.               *)
(***************************************************************************)
EXTENDS Integers, Sequences, FiniteSets, TLC

(* -------------------------- bounds of the model ------------------------ *)
MaxTrials == 2      \* trials in an ensemble: 1..MaxTrials
MaxLen    == 4      \* datalength: 1..MaxLen
MaxStep   == 5      \* requested minstep and maxstep: 1..MaxStep
MaxRows   == 4      \* rows of a 2-D array handed to correlation_fit: 1..MaxRows
MaxCols   == 4      \* its columns, and the length of a 1-D one: 1..MaxCols
MaxStarts == 2      \* rows of fitpars: 1..MaxStarts
MaxTau    == 2      \* a fitted tau: 1..MaxTau
MaxAmp    == 1      \* a fitted amplitude A: 0..MaxAmp

VARIABLES
    pc,         \* position in correlation_coefficients: "start", "checked", "done"
    shape,      \* data.shape
    data,       \* the array's contents, <<>> until the regression loops read them
    minstep,    \* the local variable minstep (the argument, then as corrected)
    maxstep,    \* the local variable maxstep
    method,     \* 'trialseparated' or 'stationarymean'
    warnings,   \* the argument warnings printed so far
    outcome,    \* "none" while running, then "returned", "SystemExit" or "ValueError"
    fulres,     \* the CoefficientResult returned (<<>> before that)
    regressed   \* the lags scipy.stats.linregress has been called with

ccvars == <<pc, shape, data, minstep, maxstep, method, warnings, outcome, fulres,
            regressed>>

VARIABLES
    fitpc,      \* position in correlation_fit: "start", "fitting", "done"
    fitdata,    \* the argument data
    fitpars,    \* the argument fitpars (the starting-parameter rows)
    frame,      \* the locals steps, coefficients, stderrs, mnaive, idx,
                \* ssresmin, fulpopt, fulpcov (<<>> is an unbound name)
    runs,       \* what each call of scipy.optimize.curve_fit so far came to:
                \* the exception raised ("none" if none), popt, pcov and the
                \* ssres computed for it
    fitoutcome, \* "none" while running, then "returned" or the exception raised
    fitres      \* the CorrelationResult returned (<<>> before that)

cfvars == <<fitpc, fitdata, fitpars, frame, runs, fitoutcome, fitres>>

vars == <<ccvars, cfvars>>

(* ------------------------------ rationals ------------------------------ *)
NaN == <<0, 0>>

IsNaN(q) == q[2] = 0

Abs(n) == IF n < 0 THEN -n ELSE n

RECURSIVE GCD(_, _)
GCD(a, b) == IF b = 0 THEN a ELSE GCD(b, a % b)

\* the float n/d; 0/0 is not a number
Rat(n, d) ==
    IF d = 0 THEN NaN
    ELSE LET g == GCD(Abs(n), Abs(d))
             s == IF d < 0 THEN -1 ELSE 1
         IN  <<(s * n) \div g, (s * d) \div g>>

Float(n) == <<n, 1>>

RAdd(a, b) == IF IsNaN(a) \/ IsNaN(b) THEN NaN
              ELSE Rat(a[1] * b[2] + b[1] * a[2], a[2] * b[2])

RSub(a, b) == IF IsNaN(a) \/ IsNaN(b) THEN NaN
              ELSE Rat(a[1] * b[2] - b[1] * a[2], a[2] * b[2])

RMul(a, b) == IF IsNaN(a) \/ IsNaN(b) THEN NaN
              ELSE Rat(a[1] * b[1], a[2] * b[2])

\* division by a positive integer
RDivInt(a, n) == IF IsNaN(a) THEN NaN ELSE Rat(a[1], a[2] * n)

RECURSIVE SumTo(_, _)
SumTo(f, n) == IF n = 0 THEN 0 ELSE f[n] + SumTo(f, n - 1)

Sum(s) == SumTo(s, Len(s))

RECURSIVE RSumTo(_, _)
RSumTo(f, n) == IF n = 0 THEN Float(0) ELSE RAdd(f[n], RSumTo(f, n - 1))

RSum(s) == RSumTo(s, Len(s))

Max0(n) == IF n < 0 THEN 0 ELSE n

\* an arange that takes its stop value in: b - a + 1 entries
arangeInclusive(a, b) == [i \in 1..Max0(b - a + 1) |-> a + i - 1]

(* ------------------------- numpy and scipy pieces ---------------------- *)
\* np.arange(a, b): a, a+1, ..., b-1 (empty when b <= a)
arange(a, b) == [i \in 1..Max0(b - a) |-> a + i - 1]

\* trial[0:-step] for step >= 1: the first len-step entries (none if step >= len)
Head0(trial, step) == SubSeq(trial, 1, Max0(Len(trial) - step))

\* trial[step:] for step >= 1: the entries after the first step ones
TailFrom(trial, step) == SubSeq(trial, step + 1, Len(trial))

\* np.mean of a 1-D integer array
mean(trial) == Rat(Sum(trial), Len(trial))

\* The behaviours of scipy.stats.linregress on a degenerate input differ
\* between releases: "legacy" (the releases of the code's time) divides 0 by
\* 0 and returns nan; "current" raises ValueError when all x are identical
\* (and there are at least two), and returns a zero stderr for two points.
ScipyReleases == {"legacy", "current"}

\* whether scipy.stats.linregress(x, y) raises ValueError: on an empty input,
\* and in the "current" release when all x are identical
linregressRaises(x, y, lib) ==
    LET n  == Len(x)
        sx == Sum(x)
    IN  \/ n = 0
        \/ Len(y) = 0
        \/ lib = "current" /\ n > 1 /\ n * Sum([i \in 1..n |-> x[i] * x[i]]) - sx * sx = 0

\* scipy.stats.linregress(x, y) on the float arrays x/den, y/den (x, y are
\* integer sequences; den is the common denominator of the centred data of
\* the stationarymean method and 1 otherwise).  The slope and its standard
\* error do not depend on den; the intercept scales by 1/den.
linregress(x, y, den, lib) ==
    LET n   == Len(x)
        sx  == Sum(x)
        sy  == Sum(y)
        sxx == n * Sum([i \in 1..n |-> x[i] * x[i]]) - sx * sx
        syy == n * Sum([i \in 1..n |-> y[i] * y[i]]) - sy * sy
        sxy == n * Sum([i \in 1..n |-> x[i] * y[i]]) - sx * sy
    IN  IF linregressRaises(x, y, lib)
        THEN [raised |-> TRUE, slope |-> NaN, intercept |-> NaN, stderr |-> NaN]
        ELSE [raised    |-> FALSE,
              slope     |-> Rat(sxy, sxx),
              intercept |-> Rat(sy * sxx - sxy * sx, n * sxx * den),
              stderr    |-> IF lib = "current" /\ n = 2 THEN Float(0)
                            ELSE IF sxx = 0 \/ n = 2 THEN NaN
                            ELSE RDivInt(RDivInt(Rat(sxx * syy - sxy * sxy, sxx), sxx), n - 2)]

\* np.mean(a, axis=1) of a 2-D array given as a sequence of rows
MeanAxis1(a) == [t \in 1..Len(a) |-> mean(a[t])]

\* np.mean over the wrong axis (axis=1): one mean per trial
MeanWrongAxis(m, numsteps) ==
    [t \in 1..Len(m) |-> RDivInt(RSum(m[t]), numsteps)]

\* np.sum(m, axis=0): the division by the number of trials forgotten
SumAxis0(m, numsteps) ==
    [k \in 1..numsteps |-> RSum([t \in 1..Len(m) |-> m[t][k]])]

\* np.mean(m, axis=0) of a trials x numsteps array of floats
MeanAxis0(m, numsteps) ==
    [k \in 1..numsteps |-> RDivInt(RSum([t \in 1..Len(m) |-> m[t][k]]), Len(m))]

\* np.sqrt(np.var(m, axis=0, ddof=1)): per column, the sum of the squared
\* deviations from the column mean over (trials - 1); the radicand is kept
StdDdof1(m, numsteps) ==
    LET mu == MeanAxis0(m, numsteps)
    IN  [k \in 1..numsteps |->
            RDivInt(RSum([t \in 1..Len(m) |->
                            RMul(RSub(m[t][k], mu[k]), RSub(m[t][k], mu[k]))]),
                    Len(m) - 1)]

(* -------------------- correlation_coefficients: inputs ----------------- *)
Methods == {"trialseparated", "stationarymean"}

\* the shapes of the arrays handed in: 1-D, 2-D (trials, datalength), 3-D
Shapes ==
    {<<l>> : l \in 1..MaxLen}
    \cup {<<n, l>> : n \in 1..MaxTrials, l \in 1..MaxLen}
    \cup {<<n, n, l>> : n \in 1..MaxTrials, l \in 1..MaxLen}

\* the activity of one time bin: silent, or one event (larger counts take
\* the exact arithmetic of the variances past TLC's 32-bit integers)
Activity == {0, 1}

\* The contents of a (numtrials, datalength) array: the trials are the
\* consecutive windows of one recording.
Ensembles(numtrials, datalength) ==
    {[t \in 1..numtrials |-> [i \in 1..datalength |-> r[t + i - 1]]] :
        r \in [1..(datalength + numtrials - 1) -> Activity]}

\* correlation_fit is not running
FitIdle ==
    /\ fitpc = "idle"
    /\ fitdata = <<>>
    /\ fitpars = <<>>
    /\ frame = <<>>
    /\ runs = <<>>
    /\ fitoutcome = "none"
    /\ fitres = <<>>

Init ==
    /\ FitIdle
    /\ pc = "start"
    /\ shape \in Shapes
    /\ data = <<>>
    /\ minstep \in 1..MaxStep
    /\ maxstep \in 1..MaxStep
    /\ method \in Methods
    /\ warnings = {}
    /\ outcome = "none"
    /\ fulres = <<>>
    /\ regressed = {}

(* ------------- correlation_coefficients: checking arguments ------------ *)
\* the dimension check without its dim >= 3 branch
CheckDimLenient(dim) == IF dim = 1 THEN "reshape" ELSE "keep"

\* lines 362-377: what the dimension check does with an array of dim axes
CheckDim(dim) ==
    IF dim = 1 THEN "reshape"
    ELSE IF dim >= 3 THEN "exit"
    ELSE "keep"

\* the reset to the other bound instead of to 1
ResetMinstepToMax(mn, mx) == IF mn > mx THEN mx ELSE mn

\* lines 379-381
ResetMinstep(mn, mx) == IF mn > mx THEN 1 ELSE mn

\* lines 383-386
ClampMaxstep(mx, datalength) == IF mx > datalength THEN datalength - 2 ELSE mx

CheckArguments ==
    /\ pc = "start"
    /\ LET dim == Len(shape)
       IN  IF CheckDim(dim) = "exit"
           THEN /\ pc' = "done"
                /\ outcome' = "SystemExit"
                /\ UNCHANGED <<shape, minstep, maxstep, warnings>>
           ELSE LET shp == IF CheckDim(dim) = "reshape" THEN <<1, shape[1]>> ELSE shape
                    mn  == ResetMinstep(minstep, maxstep)
                    mx  == ClampMaxstep(maxstep, shp[2])
                IN  /\ shape' = shp
                    /\ minstep' = mn
                    /\ maxstep' = mx
                    /\ warnings' =
                          (IF dim = 1 THEN {"reshaping"} ELSE {})
                          \cup (IF minstep > maxstep THEN {"minstep > maxstep"} ELSE {})
                          \cup (IF maxstep > shp[2] THEN {"maxstep is larger"} ELSE {})
                    /\ pc' = "checked"
                    /\ outcome' = "none"
    /\ UNCHANGED <<data, method, fulres, regressed>>
    /\ UNCHANGED cfvars

(* ----------------- correlation_coefficients: the estimate -------------- *)
\* the aggregate standard errors without the single-trial branch
AggregateStderrsNoFallback(sep, numtrials, numsteps) ==
    StdDdof1(sep.coefficients, numsteps)

\* lines 418-429: the aggregate standard errors of the trialseparated method
AggregateStderrs(sep, numtrials, numsteps) ==
    IF numtrials = 1 THEN sep.stderrs[1]
    ELSE StdDdof1(sep.coefficients, numsteps)

\* The lags a loop over steps calls the regression with, when raises[k] says
\* whether the call for steps[k] raises: those up to the first that does.
LagsUntilRaise(steps, raises) ==
    {steps[k] : k \in {j \in 1..Len(steps) : \A i \in 1..(j - 1) : ~raises[i]}}

\* lines 396-437
TrialSeparated(d, steps, lib) ==
    LET numsteps  == Len(steps)
        numtrials == Len(d)
        lr == [t \in 1..numtrials |-> [k \in 1..numsteps |->
                 linregress(Head0(d[t], steps[k]), TailFrom(d[t], steps[k]), 1, lib)]]
        sepres == [coefficients  |-> [t \in 1..numtrials |-> [k \in 1..numsteps |-> lr[t][k].slope]],
                   offsets       |-> [t \in 1..numtrials |-> [k \in 1..numsteps |-> lr[t][k].intercept]],
                   stderrs       |-> [t \in 1..numtrials |-> [k \in 1..numsteps |-> lr[t][k].stderr]],
                   steps         |-> steps,
                   trialactivies |-> MeanAxis1(d)]
        raises  == [t \in 1..numtrials |-> [k \in 1..numsteps |->
                      linregressRaises(Head0(d[t], steps[k]), TailFrom(d[t], steps[k]), lib)]]
        \* the trials the outer loop gets to
        reached(r) == {t \in 1..numtrials :
                          \A u \in 1..(t - 1) : \A k \in 1..numsteps : ~r[u][k]}
    IN  [raised |-> \E t \in 1..numtrials : \E k \in 1..numsteps : lr[t][k].raised,
         lags   |-> UNION {UNION {LagsUntilRaise(steps, r[t]) : t \in reached(r)} :
                              r \in {raises}},
         result |-> [steps         |-> steps,
                     coefficients  |-> MeanAxis0(sepres.coefficients, numsteps),
                     offsets       |-> MeanAxis0(sepres.offsets, numsteps),
                     stderrs       |-> AggregateStderrs(sepres, numtrials, numsteps),
                     trialactivies |-> MeanAxis1(d),
                     samples       |-> sepres]]

RECURSIVE Concat(_, _)
\* np.concatenate of the rows f[1..n]
Concat(f, n) == IF n = 0 THEN <<>> ELSE Concat(f, n - 1) \o f[n]

\* lines 396-402 and 439-463; trial - m is kept as datalength*trial - sum(trial),
\* the centred value times the common denominator datalength
StationaryMean(d, steps, lib) ==
    LET numsteps   == Len(steps)
        numtrials  == Len(d)
        datalength == Len(d[1])
        centred == [t \in 1..numtrials |->
                      [i \in 1..datalength |-> datalength * d[t][i] - Sum(d[t])]]
        lr == [k \in 1..numsteps |->
                 linregress(Concat([t \in 1..numtrials |-> Head0(centred[t], steps[k])], numtrials),
                            Concat([t \in 1..numtrials |-> TailFrom(centred[t], steps[k])], numtrials),
                            datalength, lib)]
        zeros  == [t \in 1..numtrials |-> [k \in 1..numsteps |-> Float(0)]]
        sepres == [coefficients  |-> zeros,
                   offsets       |-> zeros,
                   stderrs       |-> zeros,
                   steps         |-> steps,
                   trialactivies |-> MeanAxis1(d)]
        raises == [k \in 1..numsteps |->
                     linregressRaises(
                         Concat([t \in 1..numtrials |-> Head0(centred[t], steps[k])], numtrials),
                         Concat([t \in 1..numtrials |-> TailFrom(centred[t], steps[k])], numtrials),
                         lib)]
    IN  [raised |-> \E k \in 1..numsteps : lr[k].raised,
         lags   |-> UNION {LagsUntilRaise(steps, r) : r \in {raises}},
         result |-> [steps         |-> steps,
                     coefficients  |-> [k \in 1..numsteps |-> lr[k].slope],
                     offsets       |-> [k \in 1..numsteps |-> lr[k].intercept],
                     stderrs       |-> [k \in 1..numsteps |-> lr[k].stderr],
                     trialactivies |-> MeanAxis1(d),
                     samples       |-> sepres]]

\* lines 388-465: the loops read the array and the result is returned, unless
\* a regression raises
Estimate ==
    /\ pc = "checked"
    /\ \E d \in Ensembles(shape[1], shape[2]) : \E lib \in ScipyReleases :
          LET steps == arange(minstep, maxstep + 1)
          IN  \E est \in {IF method = "trialseparated"
                          THEN TrialSeparated(d, steps, lib)
                          ELSE StationaryMean(d, steps, lib)} :
                 /\ data' = d
                 /\ regressed' = est.lags
                 /\ IF est.raised
                    THEN outcome' = "ValueError" /\ fulres' = <<>>
                    ELSE outcome' = "returned" /\ fulres' = est.result
    /\ pc' = "done"
    /\ UNCHANGED <<shape, minstep, maxstep, method, warnings>>
    /\ UNCHANGED cfvars

Next == CheckArguments \/ Estimate

Spec == Init /\ [][Next]_vars


(* ======================== correlation_fit: inputs ====================== *)
\* A custom fit function, taken as it is (lines 638-639); it stands for the
\* model the coefficients are fitted to.  The built-in ones use exp, which
\* has no exact integer form; the fit loop uses the function only through
\* fitfunc(steps, *popt), line 682.
f_custom(k, tau, A) == A - tau * k

\* a 2-D array of the given shape: row 0 counts up from first, row 1 counts
\* down to 1, row 2 is the constant weight, further rows are zero
Array2D(rows, cols, first, weight) ==
    [r \in 1..rows |-> [c \in 1..cols |->
        IF r = 1 THEN first + c - 1
        ELSE IF r = 2 THEN cols - c + 1
        ELSE IF r = 3 THEN weight
        ELSE 0]]

\* the data handed to correlation_fit: a CoefficientResult, a 1-D array, a
\* 2-D array, or an array of three dimensions
FitInputs ==
    {[kind |-> "CoefficientResult", shape |-> <<>>,
      value |-> [steps        |-> Array2D(3, n, first, weight)[1],
                 coefficients |-> Array2D(3, n, first, weight)[2],
                 stderrs      |-> Array2D(3, n, first, weight)[3]]] :
        n \in 1..MaxCols, first \in 1..2, weight \in 1..2}
    \cup {[kind |-> "array", shape |-> <<n>>, value |-> Array2D(2, n, 1, 1)[2]] :
        n \in 1..MaxCols}
    \cup {[kind |-> "array", shape |-> <<r, c>>, value |-> Array2D(r, c, first, weight)] :
        r \in 1..MaxRows, c \in 1..MaxCols, first \in 1..2, weight \in 1..2}
    \cup {[kind |-> "array", shape |-> <<1, 1, n>>, value |-> <<Array2D(1, n, 1, 1)>>] :
        n \in 1..MaxCols}

\* fitpars: one starting row as a 1-D array, or a 2-D array of starting rows
StartGrids ==
    {[shape |-> <<2>>, rows |-> <<20, 1>>]}
    \cup {[shape |-> <<n, 2>>, rows |-> [i \in 1..n |-> <<20 * i, 1>>]] : n \in 0..MaxStarts}

\* the parameter vectors (tau, A) a fit can come to
Popts == {<<tau, A>> : tau \in 1..MaxTau, A \in 0..MaxAmp}

\* correlation_coefficients is not running
CoefficientsIdle ==
    /\ pc = "idle"
    /\ shape = <<>>
    /\ data = <<>>
    /\ minstep = 1
    /\ maxstep = 1
    /\ method = "trialseparated"
    /\ warnings = {}
    /\ outcome = "none"
    /\ fulres = <<>>
    /\ regressed = {}

InitFit ==
    /\ CoefficientsIdle
    /\ fitpc = "start"
    /\ fitdata \in FitInputs
    /\ fitpars \in StartGrids
    /\ frame = <<>>
    /\ runs = <<>>
    /\ fitoutcome = "none"
    /\ fitres = <<>>

(* -------------------- correlation_fit: guessing the format ------------- *)
ones(n) == [i \in 1..n |-> 1]

\* np.transpose of a 2-D array given as a sequence of rows
transpose(a) == [c \in 1..Len(a[1]) |-> [r \in 1..Len(a) |-> a[r][c]]]

\* mnaive: the string of line 584 is <<>>, a coefficient v is <<v>>
NotCalculated == <<>>

\* `if steps[0] == 1: mnaive = coefficients[0]`
NaiveIfFirstLag(steps, coefficients) ==
    IF steps[1] = 1 THEN <<coefficients[1]>> ELSE NotCalculated

\* lines 593-635.  raised names the exception that leaves the function
\* ("none" if none does); bound says whether steps, coefficients and stderrs
\* got assigned.
GuessFormat(d) ==
    LET unbound == [raised |-> "none", bound |-> FALSE, steps |-> <<>>,
                    coefficients |-> <<>>, stderrs |-> <<>>, mnaive |-> NotCalculated]
    IN
    IF d.kind = "CoefficientResult"
    THEN [raised |-> "none", bound |-> TRUE,
          steps        |-> d.value.steps,
          coefficients |-> d.value.coefficients,
          stderrs      |-> d.value.stderrs,
          mnaive       |-> NaiveIfFirstLag(d.value.steps, d.value.coefficients)]
    ELSE IF Len(d.shape) = 1
    THEN [raised |-> "none", bound |-> TRUE,
          coefficients |-> d.value,
          steps        |-> arange(1, Len(d.value) + 1),
          stderrs      |-> ones(Len(d.value)),
          mnaive       |-> <<d.value[1]>>]
    ELSE IF Len(d.shape) = 2
    THEN LET a == IF d.shape[1] > d.shape[2] THEN transpose(d.value) ELSE d.value
         IN  IF Len(a) = 1
             THEN [raised |-> "none", bound |-> TRUE,
                   coefficients |-> a[1],
                   steps        |-> arange(1, Len(a[1])),
                   stderrs      |-> ones(Len(a[1])),
                   mnaive       |-> <<a[1][1]>>]
             ELSE IF Len(a) = 2
             THEN [raised |-> "none", bound |-> TRUE,
                   steps        |-> a[1],
                   coefficients |-> a[2],
                   stderrs      |-> ones(Len(a[2])),
                   mnaive       |-> NaiveIfFirstLag(a[1], a[2])]
             ELSE \* three rows or more: the assignments of lines 629-632, then
                  \* `data.shape > 3` compares a tuple with an int, a TypeError
                  \* in Python 3; the handler of line 635 calls str.foramt,
                  \* which does not exist, and the AttributeError leaves the
                  \* function
                  [raised |-> "AttributeError", bound |-> TRUE,
                   steps        |-> a[1],
                   coefficients |-> a[2],
                   stderrs      |-> ones(Len(a[2])),
                   mnaive       |-> NaiveIfFirstLag(a[1], a[2])]
    ELSE unbound

\* lines 645: a 1-D fitpars becomes one row
StartRows(fp) == IF Len(fp.shape) < 2 THEN <<fp.rows>> ELSE fp.rows

\* np.inf, the initial ssresmin of line 655: <<>>; a finite value v is <<v>>
inf == <<>>

\* lines 583-655: the arguments are checked and the fit loop is set up
FitCheckArguments ==
    /\ fitpc = "start"
    /\ LET g == GuessFormat(fitdata)
       IN  IF g.raised # "none"
           THEN /\ fitpc' = "done"
                /\ fitoutcome' = g.raised
                /\ UNCHANGED <<fitpars, frame>>
           ELSE /\ fitpc' = "fitting"
                /\ fitoutcome' = "none"
                /\ fitpars' = [shape |-> <<Len(StartRows(fitpars)), 2>>,
                               rows  |-> StartRows(fitpars)]
                /\ frame' = [bound        |-> g.bound,
                             steps        |-> g.steps,
                             coefficients |-> g.coefficients,
                             stderrs      |-> g.stderrs,
                             mnaive       |-> g.mnaive,
                             idx          |-> 0,
                             ssresmin     |-> inf,
                             fulpopt      |-> <<>>,
                             fulpcov      |-> <<>>]
    /\ UNCHANGED <<fitdata, runs, fitres>>
    /\ UNCHANGED ccvars

(* -------------------------- correlation_fit: the fits ------------------ *)
\* the length numpy broadcasts two 1-D arrays of lengths a and b to, -1 if
\* it cannot
Broadcast(a, b) ==
    IF a = b THEN a ELSE IF a = 1 THEN b ELSE IF b = 1 THEN a ELSE -1

\* lines 682-683: np.sum((coefficients - fitfunc(steps, *popt))**2)
SumSquaredResiduals(steps, coefficients, popt) ==
    LET n == Broadcast(Len(steps), Len(coefficients))
        at(s, i) == IF Len(s) = 1 THEN s[1] ELSE s[i]
    IN  Sum([i \in 1..n |->
               (at(coefficients, i) - f_custom(at(steps, i), popt[1], popt[2]))
               * (at(coefficients, i) - f_custom(at(steps, i), popt[1], popt[2]))])

\* the comparison with <= : the last of the rows that tie wins
BetterOrEqual(ssres, ssresmin) == ssresmin = inf \/ ssres <= ssresmin[1]

\* line 684: ssres < ssresmin
Better(ssres, ssresmin) == ssresmin = inf \/ ssres < ssresmin[1]

\* What scipy.optimize.curve_fit(fitfunc, steps, coefficients, p0 = pars,
\* sigma = stderrs) can come to, lines 678-680: an exception before any
\* iteration when the arrays do not fit together or there are fewer points
\* than parameters; otherwise a parameter vector, or a RuntimeError when
\* the optimisation does not converge.
CurveFitOutcomes(fr) ==
    LET n == Broadcast(Len(fr.steps), Len(fr.coefficients))
    IN  IF ~fr.bound THEN {[raised |-> "UnboundLocalError"]}
        ELSE IF n = -1 THEN {[raised |-> "ValueError"]}
        ELSE IF n < 2 THEN {[raised |-> "TypeError"]}
        ELSE {[raised |-> "RuntimeError"]}
             \cup {[raised |-> "none", popt |-> p] : p \in Popts}

\* lines 658-687: one pass of the loop over the rows of fitpars.  An
\* exception of curve_fit is caught nowhere and leaves the function.
FitRow ==
    /\ fitpc = "fitting"
    /\ frame.idx < Len(fitpars.rows)
    /\ \E out \in CurveFitOutcomes(frame) :
          IF out.raised # "none"
          THEN /\ fitpc' = "done"
               /\ fitoutcome' = out.raised
               /\ runs' = Append(runs, [raised |-> out.raised, popt |-> <<>>, pcov |-> 0, ssres |-> 0])
               /\ frame' = frame
          ELSE LET popt  == out.popt
                   pcov  == frame.idx + 1   \* the covariance this call returned
                   ssres == SumSquaredResiduals(frame.steps, frame.coefficients, popt)
               IN  /\ runs' = Append(runs, [raised |-> "none", popt |-> popt, pcov |-> pcov, ssres |-> ssres])
                   /\ frame' = IF Better(ssres, frame.ssresmin)
                               THEN [frame EXCEPT !.idx = @ + 1, !.ssresmin = <<ssres>>,
                                                  !.fulpopt = popt, !.fulpcov = <<pcov>>]
                               ELSE [frame EXCEPT !.idx = @ + 1]
                   /\ UNCHANGED <<fitpc, fitoutcome>>
    /\ UNCHANGED <<fitdata, fitpars, fitres>>
    /\ UNCHANGED ccvars

\* line 689: the time step
deltat == 1

\* np.exp(q) of an exact rational q, kept as the term exp(q): exp is
\* injective, so two values agree exactly when their exponents do
exp(q) == [exp |-> q]

\* growth in place of decay: the sign of the exponent is lost
MreOfGrowth(popt) == exp(Rat(deltat, popt[1]))

\* line 692: mre = np.exp(-deltat / fulpopt[0])
Mre(popt) == exp(Rat(-deltat, popt[1]))

\* lines 689-701: the result is built from the best fit and returned
FitReturn ==
    /\ fitpc = "fitting"
    /\ frame.idx = Len(fitpars.rows)
    /\ fitpc' = "done"
    /\ IF frame.fulpopt = <<>>
       THEN fitoutcome' = "UnboundLocalError" /\ fitres' = <<>>
       ELSE /\ fitoutcome' = "returned"
            /\ fitres' = [tau   |-> frame.fulpopt[1],
                          mre   |-> Mre(frame.fulpopt),
                          popt  |-> frame.fulpopt,
                          pcov  |-> frame.fulpcov[1],
                          ssres |-> frame.ssresmin[1]]
    /\ UNCHANGED <<fitdata, fitpars, frame, runs>>
    /\ UNCHANGED ccvars

NextFit == FitCheckArguments \/ FitRow \/ FitReturn

SpecFit == InitFit /\ [][NextFit]_vars

(* ======================= correlation_coefficients ====================== *)
\* Python's len() of the four arrays of a CoefficientResult agree
LenEqual(r) ==
    /\ Len(r.coefficients) = Len(r.steps)
    /\ Len(r.offsets) = Len(r.steps)
    /\ Len(r.stderrs) = Len(r.steps)

\* C1 as stated: in every returned CoefficientResult and in its nested
\* samples, len(coefficients) == len(offsets) == len(stderrs) == len(steps)
\* (stated for the results that hold at least one lag).
C1_LengthsEqualEverywhere ==
    (outcome = "returned" /\ Len(fulres.steps) >= 1) =>
        LenEqual(fulres) /\ LenEqual(fulres.samples)

\* C1 amended: the four lengths agree in the returned CoefficientResult; in
\* samples, coefficients, offsets and stderrs are numtrials x len(steps)
\* arrays (len() of each is numtrials, every row has len(steps) entries) and
\* samples.steps is the steps of the result.
C1_Lengths ==
    outcome = "returned" =>
        /\ LenEqual(fulres)
        /\ fulres.samples.steps = fulres.steps
        /\ \A f \in {fulres.samples.coefficients, fulres.samples.offsets,
                     fulres.samples.stderrs} :
              /\ Len(f) = shape[1]
              /\ \A t \in 1..Len(f) : Len(f[t]) = Len(fulres.steps)

\* two trials, three lags: the result and its samples have different len()
C1_Witness ==
    /\ outcome = "returned"
    /\ shape[1] = 2
    /\ Len(fulres.steps) = 3
    /\ Len(fulres.coefficients) = 3
    /\ Len(fulres.samples.coefficients) = 2

\* C2 as stated: whenever the requested maxstep exceeds datalength - 2, the
\* argument check leaves maxstep at exactly datalength - 2 (stated for the
\* arrays of three points or more, where datalength - 2 is a lag).
C2_MaxstepClamped ==
    [][(pc = "start" /\ pc' = "checked" /\ shape'[2] >= 3 /\ maxstep > shape'[2] - 2)
          => maxstep' = shape'[2] - 2]_vars

\* C3: a call with minstep > maxstep is not refused by the argument check:
\* the check prints its warning, sets minstep to 1 and goes on to the
\* computation, and the steps of the result of such a call begin at lag 1.
C3_MinstepReset ==
    /\ [][(pc = "start" /\ CheckDim(Len(shape)) # "exit" /\ minstep > maxstep)
             => /\ pc' = "checked"
                /\ outcome' = "none"
                /\ minstep' = 1
                /\ "minstep > maxstep" \in warnings']_vars
    /\ []("minstep > maxstep" \in warnings =>
             /\ minstep = 1
             /\ outcome # "SystemExit"
             /\ outcome = "returned" =>
                   /\ fulres.steps = arange(1, maxstep + 1)
                   /\ Len(fulres.steps) > 0 => fulres.steps[1] = 1)

\* a call that asked for minstep 3 > maxstep 2 returned the lags 1, 2
C3_Witness ==
    /\ "minstep > maxstep" \in warnings
    /\ outcome = "returned"
    /\ fulres.steps = <<1, 2>>

\* C4: an array of three or more dimensions ends the call in the argument
\* check with the exit the shape message announces, and no result; a
\* one-dimensional array passes the check reshaped to one trial, and a
\* result returned for it holds one trial.
C4_ShapeError ==
    /\ [][(pc = "start" /\ Len(shape) >= 3)
             => (pc' = "done" /\ outcome' = "SystemExit" /\ fulres' = <<>>)]_vars
    /\ [][(pc = "start" /\ Len(shape) = 1)
             => /\ pc' = "checked"
                /\ outcome' = "none"
                /\ shape' = <<1, shape[1]>>
                /\ "reshaping" \in warnings']_vars
    /\ [](Len(shape) >= 3 => outcome # "returned")
    /\ []("reshaping" \in warnings /\ outcome = "returned"
             => Len(fulres.samples.coefficients) = 1 /\ Len(fulres.trialactivies) = 1)

\* a three-dimensional array has ended the call in the argument check
C4_Witness ==
    /\ Len(shape) = 3
    /\ pc = "done"
    /\ outcome = "SystemExit"

BesselVariance(c) ==
    LET n  == Len(c)
        s1 == RSum(c)
        s2 == RSum([t \in 1..n |-> RMul(c[t], c[t])])
    IN  RDivInt(RSub(s2, RDivInt(RMul(s1, s1), n)), n - 1)

\* C6: under the trialseparated method, with one trial the aggregate stderrs
\* are samples.stderrs[0] element for element; with more trials each is the
\* Bessel-corrected standard deviation of the per-trial slopes at that lag.
C6_AggregateStderrs ==
    (outcome = "returned" /\ method = "trialseparated") =>
        LET n == Len(fulres.samples.coefficients)
        IN  IF n = 1
            THEN fulres.stderrs = fulres.samples.stderrs[1]
            ELSE \A k \in 1..Len(fulres.steps) :
                    fulres.stderrs[k] =
                        BesselVariance([t \in 1..n |-> fulres.samples.coefficients[t][k]])

\* one trial whose lag-1 regression has a finite, nonzero standard error
C6_Witness ==
    /\ outcome = "returned"
    /\ method = "trialseparated"
    /\ Len(fulres.samples.coefficients) = 1
    /\ Len(fulres.steps) >= 1
    /\ ~IsNaN(fulres.stderrs[1])
    /\ fulres.stderrs[1] # Float(0)
    /\ fulres.stderrs = fulres.samples.stderrs[1]

\* every trial's own regression is defined at every lag of the result, with
\* either scipy release (no exception, no nan)
TrialRegressionsFinite ==
    \A lib \in ScipyReleases :
        \A t \in 1..Len(data) : \A k \in 1..Len(fulres.steps) :
            LET lr == linregress(Head0(data[t], fulres.steps[k]),
                                 TailFrom(data[t], fulres.steps[k]), 1, lib)
            IN  ~lr.raised /\ ~IsNaN(lr.slope) /\ ~IsNaN(lr.stderr)

\* C7 as stated: under the stationarymean method, samples holds each trial's
\* own regression slope, intercept and standard error for every lag (stated
\* for the calls in which all these regressions are defined).
C7_SamplesHoldTrialRegressions ==
    (outcome = "returned" /\ method = "stationarymean" /\ TrialRegressionsFinite) =>
        \A t \in 1..Len(data) : \A k \in 1..Len(fulres.steps) :
            LET lr == linregress(Head0(data[t], fulres.steps[k]),
                                 TailFrom(data[t], fulres.steps[k]), 1, "legacy")
            IN  /\ fulres.samples.coefficients[t][k] = lr.slope
                /\ fulres.samples.offsets[t][k] = lr.intercept
                /\ fulres.samples.stderrs[t][k] = lr.stderr


(* ============================ correlation_fit ========================== *)
\* C8: a returned fit has run curve_fit once from every row of fitpars, its
\* ssres is the least of the rows' residual sums of squares, and popt and
\* pcov are those of the first row, in grid order, that reached it.
C8_BestOfAllRows ==
    fitoutcome = "returned" =>
        /\ Len(runs) = Len(fitpars.rows)
        /\ \A i \in 1..Len(runs) : runs[i].raised = "none" /\ fitres.ssres <= runs[i].ssres
        /\ \E j \in 1..Len(runs) :
              /\ runs[j].ssres = fitres.ssres
              /\ \A i \in 1..(j - 1) : runs[i].ssres > fitres.ssres
              /\ fitres.popt = runs[j].popt
              /\ fitres.pcov = runs[j].pcov

\* two rows tied on the least residual with different parameters, and the
\* first one was returned
C8_Witness ==
    /\ fitoutcome = "returned"
    /\ Len(runs) = 2
    /\ runs[1].ssres = runs[2].ssres
    /\ runs[1].popt # runs[2].popt
    /\ fitres.popt = runs[1].popt
    /\ fitres.pcov = runs[1].pcov

\* C9 as stated: when the optimisation from a row fails, the remaining rows
\* are still attempted, and the call returns the best fit among the rows
\* that succeeded.
C9_FailedRowSkipped ==
    (fitpc = "done" /\ \E i \in 1..Len(runs) : runs[i].raised = "RuntimeError") =>
        /\ Len(runs) = Len(fitpars.rows)
        /\ (\E j \in 1..Len(runs) : runs[j].raised = "none") =>
              /\ fitoutcome = "returned"
              /\ \A j \in 1..Len(runs) :
                    runs[j].raised = "none" => fitres.ssres <= runs[j].ssres

\* C10 as stated: a 2-D array with three or more rows (and at least as many
\* columns, so that it is not transposed) is read as steps, coefficients and
\* stderrs from its rows 0, 1 and 2, and the call raises no exception over
\* the format of its arguments.
C10_ThreeRowsParsed ==
    (/\ fitpc # "start"
     /\ fitdata.kind = "array"
     /\ Len(fitdata.shape) = 2
     /\ fitdata.shape[1] >= 3
     /\ fitdata.shape[1] <= fitdata.shape[2]) =>
        /\ fitoutcome \in {"none", "returned", "RuntimeError"}
        /\ frame.steps = fitdata.value[1]
        /\ frame.coefficients = fitdata.value[2]
        /\ frame.stderrs = fitdata.value[3]

\* C11: a 1-D array of N coefficients is read as the coefficients of the lags
\* 1..N (steps has the N entries 1, 2, ..., N), every standard error is 1,
\* and mnaive is the first coefficient.
C11_FlatCoefficients ==
    (fitpc # "start" /\ fitdata.kind = "array" /\ Len(fitdata.shape) = 1) =>
        LET N == fitdata.shape[1]
        IN  /\ Len(fitdata.value) = N
            /\ frame.coefficients = fitdata.value
            /\ frame.steps = [k \in 1..N |-> k]
            /\ frame.stderrs = [k \in 1..N |-> 1]
            /\ frame.mnaive = <<fitdata.value[1]>>

\* three coefficients were given flat, and the fit loop was set up with them
C11_Witness ==
    /\ fitpc = "fitting"
    /\ fitdata.kind = "array"
    /\ fitdata.shape = <<3>>
    /\ frame.steps = <<1, 2, 3>>
    /\ frame.coefficients = <<3, 2, 1>>
    /\ frame.mnaive = <<3>>

\* C12: in every CorrelationResult that correlation_fit returns, tau is the
\* first entry of the returned parameter vector popt, which is the one that
\* won the fit loop, and mre is exp(-1/tau) for that tau.
C12_TauAndMre ==
    fitoutcome = "returned" =>
        /\ fitres.popt = frame.fulpopt
        /\ fitres.tau = fitres.popt[1]
        /\ fitres.mre = exp(Rat(-1, fitres.tau))

\* a fit was returned whose tau is 2 and differs from its second parameter
C12_Witness ==
    /\ fitoutcome = "returned"
    /\ fitres.tau = 2
    /\ fitres.popt[2] # 2
    /\ fitres.mre = exp(<<-1, 2>>)

(* ======================= correlation_coefficients ====================== *)
\* C13 as stated: whatever minstep, maxstep and data length are asked for,
\* every lag k a regression is called with has 1 <= k <= datalength - 1, so
\* that neither trial[0:-k] nor trial[k:] is empty.  (Stated for three time
\* bins or more.)
C13_LagsInsideData ==
    (pc = "done" /\ outcome # "SystemExit" /\ shape[2] >= 3) =>
        \A k \in regressed :
            /\ 1 <= k /\ k <= shape[2] - 1
            /\ \A t \in 1..Len(data) :
                   Head0(data[t], k) # <<>> /\ TailFrom(data[t], k) # <<>>

(* ============================ correlation_fit ========================== *)
\* C14 as stated: a 2-D array with the single row of N coefficients is read
\* like the flat 1-D array: steps is 1..N, and steps, coefficients and
\* stderrs, as handed to the solver, all have the length N.  (Stated for
\* two coefficients or more.)
C14_NestedLikeFlat ==
    (/\ fitpc # "start"
     /\ fitdata.kind = "array"
     /\ Len(fitdata.shape) = 2
     /\ fitdata.shape[1] = 1
     /\ fitdata.shape[2] >= 2) =>
        LET N == fitdata.shape[2]
        IN  /\ frame.coefficients = fitdata.value[1]
            /\ frame.steps = [k \in 1..N |-> k]
            /\ Len(frame.steps) = N
            /\ Len(frame.coefficients) = N
            /\ Len(frame.stderrs) = N

(* ======================= correlation_coefficients ====================== *)
\* C15 as stated: once the minstep reset and the maxstep clamp have both
\* been applied, in the code's order, minstep <= maxstep holds for the
\* corrected values, and the steps of a returned result are the non-empty
\* ascending sequence minstep, minstep + 1, ..., maxstep of length
\* maxstep - minstep + 1.  (Stated for three time bins or more.)
C15_StepsNonEmpty ==
    (pc # "start" /\ outcome # "SystemExit" /\ shape[2] >= 3) =>
        /\ minstep <= maxstep
        /\ outcome = "returned" =>
              /\ Len(fulres.steps) = maxstep - minstep + 1
              /\ Len(fulres.steps) >= 1
              /\ \A k \in 1..Len(fulres.steps) : fulres.steps[k] = minstep + k - 1

=============================================================================
